---- MODULE Spec2Model ----
(***************************************************************************)
(* Model of libwyag.py: the content-addressed object store (object_read,   *)
(* object_write, repo_dir, repo_file), the object classes (GitBlob,        *)
(* GitCommit, GitTag, GitTree) and the KVLM codec (kvlm_serialize,         *)
(* kvlm_parse).  Bytes are integers 0..255, byte strings are sequences of  *)
(* bytes, and Python indices are kept 0-based in the helper operators.     *)
(***************************************************************************)
EXTENDS Integers, Sequences, FiniteSets, TLC

VARIABLES odirs, onotdirs, ofiles, pc, call, local, ret,
          kin, kraw, kstart, kdict, kspace, kend, kdepth, kpc, kout

storevars == <<odirs, onotdirs, ofiles>>
procvars == <<pc, call, local, ret>>
kvars == <<kin, kraw, kstart, kdict, kspace, kend, kdepth, kpc, kout>>
vars == <<odirs, onotdirs, ofiles, pc, call, local, ret,
          kin, kraw, kstart, kdict, kspace, kend, kdepth, kpc, kout>>

(***************************************************************************)
(* Bounds of the model.                                                    *)
(***************************************************************************)
MaxPayload == 2
MaxLines == 3

(***************************************************************************)
(* Bytes the code names.                                                   *)
(***************************************************************************)
SP == 32
NL == 10
NUL == 0
\* Bytes the model's inputs are made of: two letters and a byte above 127.
Byte == [a |-> 97, b |-> 98, high |-> 255]

Min(a, b) == IF a < b THEN a ELSE b
Max(a, b) == IF a > b THEN a ELSE b

(***************************************************************************)
(* Python values that the code lets flow where bytes are expected: a byte  *)
(* string, or the int that indexing a byte string (raw[i]) yields.         *)
(***************************************************************************)
PyBytes(s) == [t |-> "bytes", v |-> s]
PyInt(n) == [t |-> "int", v |-> <<n>>]
PyUnset == [t |-> "unset", v |-> <<>>]

(***************************************************************************)
(* bytes.find(b, start) for a one-byte needle: the least 0-based index     *)
(* i >= start with s[i] = b, or -1.  A negative start counts from the end. *)
(***************************************************************************)
PyStart(s, i) == IF i < 0 THEN Max(Len(s) + i, 0) ELSE Min(i, Len(s))

Find(s, b, start) ==
    LET from == PyStart(s, start)
        hits == {i \in from..(Len(s) - 1) : s[i + 1] = b}
    IN  IF start > Len(s) \/ hits = {} THEN -1
        ELSE CHOOSE i \in hits : \A j \in hits : i <= j

(***************************************************************************)
(* The slice s[i:j] with Python's treatment of negative and large bounds.  *)
(***************************************************************************)
Slice(s, i, j) ==
    LET lo == PyStart(s, i)
        hi == PyStart(s, j)
    IN  IF lo >= hi THEN <<>> ELSE SubSeq(s, lo + 1, hi)

SliceFrom(s, i) == Slice(s, i, Len(s))

(***************************************************************************)
(* bytes.replace(old, new) for the two replacements the codec makes:       *)
(* "\n" -> "\n " (escape) and "\n " -> "\n" (unescape), left to right.     *)
(***************************************************************************)
RECURSIVE Escape(_)
Escape(s) ==
    IF s = <<>> THEN <<>>
    ELSE IF Head(s) = NL THEN <<NL, SP>> \o Escape(Tail(s))
    ELSE <<Head(s)>> \o Escape(Tail(s))

RECURSIVE Unescape(_)
Unescape(s) ==
    IF s = <<>> THEN <<>>
    ELSE IF Len(s) >= 2 /\ s[1] = NL /\ s[2] = SP
         THEN <<NL>> \o Unescape(SubSeq(s, 3, Len(s)))
    ELSE <<Head(s)>> \o Unescape(Tail(s))

(***************************************************************************)
(* str(n).encode(): the decimal digits of a natural number.                *)
(***************************************************************************)
RECURSIVE StrOfNat(_)
StrOfNat(n) ==
    IF n < 10 THEN <<48 + n>> ELSE StrOfNat(n \div 10) \o <<48 + (n % 10)>>

IsDigit(b) == b >= 48 /\ b <= 57
IsSpace(b) == b \in {SP, NL, 9, 11, 12, 13}

RECURSIVE Strip(_)
Strip(s) ==
    IF s = <<>> THEN s
    ELSE IF IsSpace(s[1]) THEN Strip(Tail(s))
    ELSE IF IsSpace(s[Len(s)]) THEN Strip(SubSeq(s, 1, Len(s) - 1))
    ELSE s

RECURSIVE DigitsValue(_)
DigitsValue(s) ==
    IF s = <<>> THEN 0
    ELSE 10 * DigitsValue(SubSeq(s, 1, Len(s) - 1)) + (s[Len(s)] - 48)

(***************************************************************************)
(* int(token.decode("ascii")): a byte above 127 fails the decode, and      *)
(* anything that is not blank-padded decimal digits fails the conversion.  *)
(***************************************************************************)
IntOf(s) ==
    IF \E i \in 1..Len(s) : s[i] > 127 THEN [ok |-> FALSE, exc |-> "UnicodeDecodeError", n |-> 0]
    ELSE IF Strip(s) = <<>> \/ \E i \in 1..Len(Strip(s)) : ~IsDigit(Strip(s)[i])
         THEN [ok |-> FALSE, exc |-> "ValueError", n |-> 0]
    ELSE [ok |-> TRUE, exc |-> "", n |-> DigitsValue(Strip(s))]

(***************************************************************************)
(* zlib.compress / zlib.decompress, modelled as a lossless run-length      *)
(* codec: the stored bytes are <<count, byte, count, byte, ...>>.  A       *)
(* stream of odd length or with a zero count is not a valid stream.        *)
(***************************************************************************)
RECURSIVE RunLen(_, _)
RunLen(s, b) == IF s = <<>> \/ Head(s) # b THEN 0 ELSE 1 + RunLen(Tail(s), b)

RECURSIVE Compress(_)
Compress(s) ==
    IF s = <<>> THEN <<>>
    ELSE LET n == RunLen(s, Head(s))
         IN  <<n, Head(s)>> \o Compress(SubSeq(s, n + 1, Len(s)))

ValidStream(z) ==
    /\ Len(z) % 2 = 0
    /\ \A i \in 1..Len(z) : (i % 2 = 1) => z[i] > 0

RECURSIVE Decompress(_)
Decompress(z) ==
    IF z = <<>> THEN <<>>
    ELSE [i \in 1..z[1] |-> z[2]] \o Decompress(SubSeq(z, 3, Len(z)))

(***************************************************************************)
(* A KVLM document (the OrderedDict of GitCommit.kvlm): the fields in      *)
(* insertion order, each a scalar or a list, and the message kept under    *)
(* the None key.                                                           *)
(***************************************************************************)
Field(k, isList, vs) == [key |-> k, list |-> isList, vals |-> vs]
Doc(fs, m) == [fields |-> fs, hasmsg |-> TRUE, msg |-> m]
EmptyDoc == [fields |-> <<>>, hasmsg |-> FALSE, msg |-> PyUnset]

Returns(v) == [kind |-> "return", exc |-> "", v |-> v]
Raises(e) == [kind |-> "raise", exc |-> e, v |-> <<>>]

(***************************************************************************)
(* kvlm_serialize.  The loop builds one line per value in obj; the         *)
(* statement after the loop assigns obj anew from the message.             *)
(***************************************************************************)
RECURSIVE ValueLines(_, _)
ValueLines(k, vs) ==
    IF vs = <<>> THEN <<>>
    ELSE k \o <<SP>> \o Escape(Head(vs)) \o <<NL>> \o ValueLines(k, Tail(vs))

RECURSIVE FieldLines(_)
FieldLines(fs) ==
    IF fs = <<>> THEN <<>>
    ELSE ValueLines(Head(fs).key, Head(fs).vals) \o FieldLines(Tail(fs))

SerializeTail(obj, msg) == <<NL>> \o msg \o <<NL>>

kvlm_serialize(kvlm) ==
    LET obj == FieldLines(kvlm.fields)
    IN  IF ~kvlm.hasmsg THEN Raises("KeyError")
        ELSE IF kvlm.msg.t # "bytes" THEN Raises("TypeError")
        ELSE Returns(SerializeTail(obj, kvlm.msg.v))

(***************************************************************************)
(* kvlm_parse, one call frame at a time.  KvlmEntry is the code from the   *)
(* two finds to the choice between the message branch and the value scan;  *)
(* KvlmScan is one iteration of the while loop and, when the loop breaks,  *)
(* the code after it up to the recursive call.                             *)
(***************************************************************************)
RecursionLimit == MaxLines + 3

HasKey(fs, k) == \E i \in 1..Len(fs) : fs[i].key = k

DictPut(fs, k, value) ==
    IF HasKey(fs, k)
    THEN [i \in 1..Len(fs) |->
            IF fs[i].key = k
            THEN Field(k, TRUE, Append(fs[i].vals, value))
            ELSE fs[i]]
    ELSE Append(fs, Field(k, FALSE, <<value>>))

MessageAt(raw, start) == PyInt(raw[start + 2])

KvlmEntry(raw, start, dict) ==
    LET space == Find(raw, SP, start)
        new_line == Find(raw, NL, start)
    IN  IF space < 0 \/ new_line < space
        THEN IF new_line # start
             THEN [pc |-> "done", space |-> space, out |-> "AssertionError", dict |-> dict]
             ELSE IF start + 1 >= Len(raw)
             THEN [pc |-> "done", space |-> space, out |-> "IndexError", dict |-> dict]
             ELSE [pc |-> "done", space |-> space, out |-> "return",
                   dict |-> [dict EXCEPT !.hasmsg = TRUE, !.msg = MessageAt(raw, start)]]
        ELSE [pc |-> "scan", space |-> space, out |-> "", dict |-> dict]

ScanBreaks(raw, end) == raw[end + 2] # SP

KvlmScan(raw, start, dict, space, end, depth) ==
    LET e == Find(raw, NL, end + 1)
        key == Slice(raw, start, space)
        value == Unescape(Slice(raw, space + 1, e))
    IN  IF e + 1 >= Len(raw)
        THEN [pc |-> "done", end |-> e, start |-> start, depth |-> depth,
              out |-> "IndexError", dict |-> dict]
        ELSE IF ~ScanBreaks(raw, e)
        THEN [pc |-> "scan", end |-> e, start |-> start, depth |-> depth,
              out |-> "", dict |-> dict]
        ELSE IF depth + 1 > RecursionLimit
        THEN [pc |-> "done", end |-> e, start |-> start, depth |-> depth,
              out |-> "RecursionError",
              dict |-> [dict EXCEPT !.fields = DictPut(dict.fields, key, value)]]
        ELSE [pc |-> "entry", end |-> e, start |-> e + 1, depth |-> depth + 1,
              out |-> "",
              dict |-> [dict EXCEPT !.fields = DictPut(dict.fields, key, value)]]

(***************************************************************************)
(* The object classes.  An object carries its class's object_type, the     *)
(* blobdata attribute of a GitBlob and the kvlm attribute of a GitCommit.  *)
(***************************************************************************)
GitObject(type, data, kvlm) == [type |-> type, data |-> data, kvlm |-> kvlm]
GitBlob(data) == GitObject("blob", data, EmptyDoc)
GitCommit(kvlm) == GitObject("commit", PyUnset, kvlm)
NoObject == GitObject("", PyUnset, EmptyDoc)

(***************************************************************************)
(* obj.serialize() as object_write calls it, with no argument.             *)
(***************************************************************************)
Serialize(obj) ==
    IF obj.type = "blob"
    THEN IF obj.data.t = "unset"
         THEN [kind |-> "raise", exc |-> "AttributeError", v |-> PyUnset]
         ELSE [kind |-> "return", exc |-> "", v |-> obj.data]
    ELSE IF obj.type = "commit"
         THEN [kind |-> kvlm_serialize(obj.kvlm).kind, exc |-> kvlm_serialize(obj.kvlm).exc,
               v |-> PyBytes(kvlm_serialize(obj.kvlm).v)]
    ELSE [kind |-> "raise", exc |-> "TypeError", v |-> PyUnset]

(***************************************************************************)
(* c(data) for data that is not None: GitObject.__init__ hands data to the *)
(* class's deserialize.  object_read passes the int raw[y + 1].            *)
(***************************************************************************)
Construct(type, data) ==
    IF type = "blob" THEN [kind |-> "object", exc |-> "", obj |-> GitBlob(data)]
    ELSE IF type = "commit" /\ data.t # "bytes"
         THEN [kind |-> "raise", exc |-> "AttributeError", obj |-> NoObject]
    ELSE [kind |-> "raise", exc |-> "Exception: Unimplemented!", obj |-> NoObject]

(***************************************************************************)
(* The frame <type> <len>\0<payload> and its SHA-1 hex digest.  The digest *)
(* is modelled as collision-free: two hex characters computed from the     *)
(* frame's bytes, followed by the frame itself in place of the other 38.   *)
(***************************************************************************)
TypeToken(type) ==
    IF type = "blob" THEN <<98, 108, 111, 98>>
    ELSE IF type = "commit" THEN <<99, 111, 109, 109, 105, 116>>
    ELSE IF type = "tree" THEN <<116, 114, 101, 101>>
    ELSE <<116, 97, 103>>

TypeOfToken(tok) ==
    IF tok = TypeToken("commit") THEN "commit"
    ELSE IF tok = TypeToken("tree") THEN "tree"
    ELSE IF tok = TypeToken("tag") THEN "tag"
    ELSE IF tok = TypeToken("blob") THEN "blob"
    ELSE ""

FrameOf(tok, n, data) == tok \o <<SP>> \o StrOfNat(n) \o <<NUL>> \o data

ObjectFormat(type, data) == FrameOf(TypeToken(type), Len(data), data)

RECURSIVE ByteSum(_)
ByteSum(s) == IF s = <<>> THEN 0 ELSE Head(s) + ByteSum(Tail(s))

HexDigit(n) == IF n < 10 THEN 48 + n ELSE 87 + n

Sha1(frame) ==
    <<HexDigit((ByteSum(frame) \div 16) % 16), HexDigit(ByteSum(frame) % 16)>> \o frame

ShaDir(sha) == Slice(sha, 0, 2)
ShaName(sha) == SliceFrom(sha, 2)

(***************************************************************************)
(* repo_dir and repo_file on objects/<dir>/<name>.  odirs are the          *)
(* directories under objects/, onotdirs the names there that are not       *)
(* directories, ofiles the object files.                                   *)
(***************************************************************************)
repo_dir(dirs, notdirs, d, mkdir) ==
    IF d \in dirs THEN [kind |-> "path", made |-> FALSE]
    ELSE IF d \in notdirs THEN [kind |-> "raise", made |-> FALSE]
    ELSE IF mkdir THEN [kind |-> "path", made |-> TRUE]
    ELSE [kind |-> "none", made |-> FALSE]

repo_file(dirs, notdirs, d, mkdir) == repo_dir(dirs, notdirs, d, mkdir)

FileAt(files, d, name) == {f \in files : f.dir = d /\ f.name = name}

IsFile(files, d, name) == FileAt(files, d, name) # {}

ReadBytes(files, d, name) == (CHOOSE f \in FileAt(files, d, name) : TRUE).bytes

(***************************************************************************)
(* object_read, from the decompressed bytes on.                            *)
(***************************************************************************)
ReadNone == [kind |-> "none", exc |-> "", obj |-> NoObject]
ReadRaises(e) == [kind |-> "raise", exc |-> e, obj |-> NoObject]

BadLength_Short(size, raw, y) == size > Len(raw) - y - 1

BadLength(size, raw, y) == size # Len(raw) - y - 1

ParseFrame(raw) ==
    LET x == Find(raw, SP, 0)
        object_type == Slice(raw, 0, x)
        y == Find(raw, NUL, x)
        size == IntOf(Slice(raw, x + 1, y))
    IN  IF ~size.ok THEN ReadRaises(size.exc)
        ELSE IF BadLength(size.n, raw, y) THEN ReadRaises("Exception: Malformed object")
        ELSE IF TypeOfToken(object_type) = ""
        THEN IF \E i \in 1..Len(object_type) : object_type[i] > 127
             THEN ReadRaises("UnicodeDecodeError")
             ELSE ReadRaises("Exception: Unknown type")
        ELSE IF y + 1 >= Len(raw) THEN ReadRaises("IndexError")
        ELSE Construct(TypeOfToken(object_type), PyInt(raw[y + 2]))

object_read(dirs, notdirs, files, sha) ==
    LET path == repo_file(dirs, notdirs, ShaDir(sha), FALSE)
    IN  IF path.kind = "raise" THEN ReadRaises("Exception: Not a directory")
        ELSE IF path.kind = "none" THEN ReadRaises("TypeError")
        ELSE IF ~IsFile(files, ShaDir(sha), ShaName(sha)) THEN ReadNone
        ELSE IF ~ValidStream(ReadBytes(files, ShaDir(sha), ShaName(sha)))
        THEN ReadRaises("zlib.error")
        ELSE ParseFrame(Decompress(ReadBytes(files, ShaDir(sha), ShaName(sha))))

(***************************************************************************)
(* The inputs of the model.                                                *)
(***************************************************************************)
Procs == {1, 2}

SeqsUpTo(S, n) == UNION {[1..k -> S] : k \in 0..n}

Payloads == SeqsUpTo({Byte.a, NUL}, MaxPayload)

Tokens == {TypeToken("blob"), TypeToken("commit"), TypeToken("tree"), TypeToken("tag"),
           <<Byte.a>>, <<Byte.high>>}

\* A stored object file: written at the path of the hash of <tok> <len>\0<p>,
\* holding a frame whose declared length n may since have been altered.
StoredFile(tok, p, n) ==
    [dir |-> ShaDir(Sha1(FrameOf(tok, Len(p), p))),
     name |-> ShaName(Sha1(FrameOf(tok, Len(p), p))),
     bytes |-> Compress(FrameOf(tok, n, p))]

\* Files whose bytes are no frame at all: not a stream, empty, no space and
\* no NUL, an empty length token.
JunkFile(bytes) ==
    [dir |-> ShaDir(Sha1(ObjectFormat("blob", <<>>))),
     name |-> ShaName(Sha1(ObjectFormat("blob", <<>>))),
     bytes |-> bytes]

\* The lengths a stored frame declares: every length a payload of the model
\* has, one more, and two of two digits.
DeclaredLengths == 0..(MaxPayload + 1) \cup {10, 12}

StoredFiles ==
    {StoredFile(tok, p, n) : tok \in Tokens, p \in Payloads, n \in DeclaredLengths}
    \cup {JunkFile(b) : b \in {<<1>>, <<>>, Compress(<<Byte.a>>),
                               Compress(TypeToken("blob") \o <<SP, NUL>>)}}

ReadShas == {Sha1(FrameOf(tok, Len(p), p)) : tok \in Tokens, p \in Payloads}

KeyNames == {<<Byte.a>>, <<Byte.b>>}
Values == {<<>>, <<Byte.a>>, <<Byte.a, NL, Byte.b>>}
Messages == {<<>>, <<Byte.a>>, <<Byte.a, NL>>, <<Byte.a, SP, Byte.b>>}

Line(k, v) == [key |-> k, value |-> v]
LineLists == SeqsUpTo({Line(k, v) : k \in KeyNames, v \in Values}, MaxLines)

\* The document a caller builds by adding the lines' values field by field.
RECURSIVE DocFields(_, _)
DocFields(fs, lines) ==
    IF lines = <<>> THEN fs
    ELSE DocFields(DictPut(fs, Head(lines).key, Head(lines).value), Tail(lines))

Docs == {Doc(DocFields(<<>>, l), PyBytes(m)) : l \in LineLists, m \in Messages}

\* The wire form of header lines, a blank line and a message.
RECURSIVE WireLines(_)
WireLines(lines) ==
    IF lines = <<>> THEN <<>>
    ELSE Head(lines).key \o <<SP>> \o Escape(Head(lines).value) \o <<NL>>
         \o WireLines(Tail(lines))

Wire(lines, m) == WireLines(lines) \o <<NL>> \o m

WellFormedRaws == {Wire(l, m) : l \in LineLists, m \in Messages}

MalformedRaws ==
    SeqsUpTo({Byte.a, SP, NL}, 3)
    \cup {<<SP, Byte.a, NL, SP, Byte.b>>, <<Byte.a, SP, Byte.b, NL, SP, Byte.a>>}

\* Inputs whose header section does not end in a blank line: the buffer
\* ends after a header line's newline (or is empty), the last line has no
\* newline, or a line without a space stands where a field name is expected.
UnterminatedRaws ==
    {WireLines(l) : l \in LineLists}
    \cup {WireLines(l) \o t : l \in LineLists, t \in {<<Byte.a>>, <<Byte.a, SP, Byte.b>>}}
    \cup {WireLines(l) \o <<Byte.a, NL>> \o m : l \in LineLists, m \in {<<>>, <<Byte.b>>}}

WriteObjects ==
    {GitBlob(PyBytes(p)) : p \in Payloads}
    \cup {GitBlob(PyUnset), GitBlob(PyInt(Byte.a))}
    \cup {GitCommit(Doc(DocFields(<<>>, l), PyBytes(m))) :
            l \in SeqsUpTo({Line(k, <<Byte.a>>) : k \in KeyNames}, 2), m \in {<<>>, <<Byte.a>>}}
    \cup {GitCommit(EmptyDoc), GitObject("tag", PyUnset, EmptyDoc),
          GitObject("tree", PyUnset, EmptyDoc)}

(***************************************************************************)
(* Initial states.  The store holds at most one object file, or only its   *)
(* directory, or a non-directory where the directory would be.             *)
(***************************************************************************)
NoCall == [op |-> "", sha |-> <<>>, obj |-> NoObject, persist |-> FALSE]
NoRet == [kind |-> "", exc |-> "", obj |-> NoObject, sha |-> <<>>]
NoInput == [kind |-> "", doc |-> EmptyDoc, raw |-> <<>>]

StoreInit ==
    \/ odirs = {} /\ onotdirs = {} /\ ofiles = {}
    \/ \E f \in StoredFiles :
          \/ odirs = {f.dir} /\ onotdirs = {} /\ ofiles = {f}
          \/ odirs = {f.dir} /\ onotdirs = {} /\ ofiles = {}
          \/ odirs = {} /\ onotdirs = {f.dir} /\ ofiles = {}

KvlmIdle ==
    /\ kin = NoInput
    /\ kraw = <<>>
    /\ kstart = 0
    /\ kdict = EmptyDoc
    /\ kspace = 0
    /\ kend = 0
    /\ kdepth = 0
    /\ kpc = "off"
    /\ kout = ""

Init ==
    /\ StoreInit
    /\ pc = [p \in Procs |-> IF p = 1 THEN "idle" ELSE "off"]
    /\ call = [p \in Procs |-> NoCall]
    /\ local = [p \in Procs |-> PyUnset]
    /\ ret = [p \in Procs |-> NoRet]
    /\ KvlmIdle

(***************************************************************************)
(* object_read(repo, sha): the whole call.                                 *)
(***************************************************************************)
ObjectRead(p, sha) ==
    /\ pc[p] = "idle"
    /\ call' = [call EXCEPT ![p] = [op |-> "read", sha |-> sha, obj |-> NoObject,
                                    persist |-> FALSE]]
    /\ LET r == object_read(odirs, onotdirs, ofiles, sha)
       IN  ret' = [ret EXCEPT ![p] = [kind |-> r.kind, exc |-> r.exc, obj |-> r.obj,
                                      sha |-> <<>>]]
    /\ pc' = [pc EXCEPT ![p] = "done"]
    /\ local' = [local EXCEPT ![p] = PyUnset]
    /\ UNCHANGED <<storevars, kvars>>

(***************************************************************************)
(* object_write(obj, repo).  First data = obj.serialize(); then the        *)
(* statement that builds the frame, which reads the local name             *)
(* object_format before anything is bound to it.                           *)
(***************************************************************************)
ObjectWriteSerialize(p, obj, persist) ==
    /\ pc[p] = "idle"
    /\ call' = [call EXCEPT ![p] = [op |-> "write", sha |-> <<>>, obj |-> obj,
                                    persist |-> persist]]
    /\ LET data == Serialize(obj)
       IN  IF data.kind = "raise"
           THEN /\ pc' = [pc EXCEPT ![p] = "done"]
                /\ local' = [local EXCEPT ![p] = PyUnset]
                /\ ret' = [ret EXCEPT ![p] = [kind |-> "raise", exc |-> data.exc,
                                              obj |-> NoObject, sha |-> <<>>]]
           ELSE /\ pc' = [pc EXCEPT ![p] = "frame"]
                /\ local' = [local EXCEPT ![p] = data.v]
                /\ ret' = [ret EXCEPT ![p] = NoRet]
    /\ UNCHANGED <<storevars, kvars>>

\* A variant of the frame statement that binds the frame and goes on to
\* open the object's path for writing whether or not a file is there.
ObjectWriteFrame_Rewrites(p) ==
    /\ pc[p] = "frame"
    /\ pc' = [pc EXCEPT ![p] = "done"]
    /\ LET frame == ObjectFormat(call[p].obj.type, local[p].v)
           sha == Sha1(frame)
           f == [dir |-> ShaDir(sha), name |-> ShaName(sha), bytes |-> Compress(frame)]
       IN  IF call[p].persist /\ ShaDir(sha) \notin onotdirs
           THEN /\ odirs' = odirs \cup {f.dir}
                /\ ofiles' = (ofiles \ FileAt(ofiles, f.dir, f.name)) \cup {f}
                /\ onotdirs' = onotdirs
                /\ ret' = [ret EXCEPT ![p] = [kind |-> "sha", exc |-> "", obj |-> NoObject,
                                              sha |-> sha]]
           ELSE /\ UNCHANGED storevars
                /\ ret' = [ret EXCEPT ![p] = [kind |-> "raise", exc |-> "Exception",
                                              obj |-> NoObject, sha |-> <<>>]]
    /\ UNCHANGED <<kvars, call, local>>

ObjectWriteFrame(p) ==
    /\ pc[p] = "frame"
    /\ pc' = [pc EXCEPT ![p] = "done"]
    /\ ret' = [ret EXCEPT ![p] = [kind |-> "raise", exc |-> "UnboundLocalError",
                                  obj |-> NoObject, sha |-> <<>>]]
    /\ UNCHANGED <<storevars, kvars, call, local>>

(***************************************************************************)
(* object_find(repo, name): returns the name it is given.                  *)
(***************************************************************************)
ObjectFind(p, name) ==
    /\ pc[p] = "idle"
    /\ call' = [call EXCEPT ![p] = [op |-> "find", sha |-> name, obj |-> NoObject,
                                    persist |-> FALSE]]
    /\ ret' = [ret EXCEPT ![p] = [kind |-> "sha", exc |-> "", obj |-> NoObject,
                                  sha |-> name]]
    /\ pc' = [pc EXCEPT ![p] = "done"]
    /\ local' = [local EXCEPT ![p] = PyUnset]
    /\ UNCHANGED <<storevars, kvars>>

(***************************************************************************)
(* The call is over: its result or exception has reached the caller, who   *)
(* may call again.                                                         *)
(***************************************************************************)
Return(p) ==
    /\ pc[p] = "done"
    /\ pc' = [pc EXCEPT ![p] = "idle"]
    /\ call' = [call EXCEPT ![p] = NoCall]
    /\ local' = [local EXCEPT ![p] = PyUnset]
    /\ ret' = [ret EXCEPT ![p] = NoRet]
    /\ UNCHANGED <<storevars, kvars>>

Next ==
    \E p \in Procs :
        \/ \E sha \in ReadShas : ObjectRead(p, sha)
        \/ \E obj \in WriteObjects, persist \in BOOLEAN : ObjectWriteSerialize(p, obj, persist)
        \/ ObjectWriteFrame(p)
        \/ \E name \in ReadShas : ObjectFind(p, name)
        \/ Return(p)

Spec == Init /\ [][Next]_vars

(***************************************************************************)
(* Two callers of object_write at once, on a store of at most one file.    *)
(***************************************************************************)
RaceStoreInit ==
    \/ odirs = {} /\ onotdirs = {} /\ ofiles = {}
    \/ \E p \in Payloads :
          LET f == StoredFile(TypeToken("blob"), p, Len(p))
          IN  \/ odirs = {f.dir} /\ onotdirs = {} /\ ofiles = {f}
              \/ odirs = {f.dir} /\ onotdirs = {} /\ ofiles = {}

InitRace ==
    /\ RaceStoreInit
    /\ pc = [p \in Procs |-> "idle"]
    /\ call = [p \in Procs |-> NoCall]
    /\ local = [p \in Procs |-> PyUnset]
    /\ ret = [p \in Procs |-> NoRet]
    /\ KvlmIdle

NextRace ==
    \E p \in Procs :
        \/ \E obj \in WriteObjects, persist \in BOOLEAN : ObjectWriteSerialize(p, obj, persist)
        \/ ObjectWriteFrame(p)

SpecRace == InitRace /\ [][NextRace]_vars

(***************************************************************************)
(* Persisting object_write calls, one after another or at once, on a store *)
(* that starts empty.                                                      *)
(***************************************************************************)
InitFresh ==
    /\ odirs = {} /\ onotdirs = {} /\ ofiles = {}
    /\ pc = [p \in Procs |-> "idle"]
    /\ call = [p \in Procs |-> NoCall]
    /\ local = [p \in Procs |-> PyUnset]
    /\ ret = [p \in Procs |-> NoRet]
    /\ KvlmIdle

NextFresh ==
    \E p \in Procs :
        \/ \E obj \in WriteObjects : ObjectWriteSerialize(p, obj, TRUE)
        \/ ObjectWriteFrame(p)

SpecFresh == InitFresh /\ [][NextFresh]_vars

(***************************************************************************)
(* The codec on its own: kvlm_serialize of a document followed by          *)
(* kvlm_parse of its output, or kvlm_parse of a given byte string.         *)
(***************************************************************************)
StoreIdle ==
    /\ odirs = {} /\ onotdirs = {} /\ ofiles = {}
    /\ pc = [p \in Procs |-> "off"]
    /\ call = [p \in Procs |-> NoCall]
    /\ local = [p \in Procs |-> PyUnset]
    /\ ret = [p \in Procs |-> NoRet]

InitKvlm ==
    /\ StoreIdle
    /\ kin \in {[kind |-> "doc", doc |-> d, raw |-> <<>>] : d \in Docs \cup {EmptyDoc}}
               \cup {[kind |-> "raw", doc |-> EmptyDoc, raw |-> r] :
                        r \in WellFormedRaws \cup MalformedRaws \cup UnterminatedRaws}
    /\ kraw = <<>>
    /\ kstart = 0
    /\ kdict = EmptyDoc
    /\ kspace = 0
    /\ kend = 0
    /\ kdepth = 0
    /\ kpc = "idle"
    /\ kout = ""

KvlmSerialize ==
    /\ kpc = "idle"
    /\ kin.kind = "doc"
    /\ LET r == kvlm_serialize(kin.doc)
       IN  IF r.kind = "raise"
           THEN kpc' = "done" /\ kout' = r.exc /\ kraw' = kraw
           ELSE kpc' = "serialized" /\ kout' = "" /\ kraw' = r.v
    /\ UNCHANGED <<storevars, procvars, kin, kstart, kdict, kspace, kend, kdepth>>

KvlmParseCall ==
    /\ \/ kpc = "serialized" /\ kraw' = kraw
       \/ kpc = "idle" /\ kin.kind = "raw" /\ kraw' = kin.raw
    /\ kpc' = "entry"
    /\ kstart' = 0
    /\ kdict' = EmptyDoc
    /\ kdepth' = 1
    /\ UNCHANGED <<storevars, procvars, kin, kspace, kend, kout>>

KvlmParseEntry ==
    /\ kpc = "entry"
    /\ LET r == KvlmEntry(kraw, kstart, kdict)
       IN  /\ kpc' = r.pc
           /\ kspace' = r.space
           /\ kout' = r.out
           /\ kdict' = r.dict
    /\ kend' = kstart
    /\ UNCHANGED <<storevars, procvars, kin, kraw, kstart, kdepth>>

KvlmParseScan ==
    /\ kpc = "scan"
    /\ LET r == KvlmScan(kraw, kstart, kdict, kspace, kend, kdepth)
       IN  /\ kpc' = r.pc
           /\ kend' = r.end
           /\ kstart' = r.start
           /\ kdepth' = r.depth
           /\ kout' = r.out
           /\ kdict' = r.dict
    /\ UNCHANGED <<storevars, procvars, kin, kraw, kspace>>

NextKvlm == KvlmSerialize \/ KvlmParseCall \/ KvlmParseEntry \/ KvlmParseScan

SpecKvlm == InitKvlm /\ [][NextKvlm]_vars

(***************************************************************************)
(* Properties of the object store.                                         *)
(***************************************************************************)
ReadDone(p) == pc[p] = "done" /\ call[p].op = "read"
WriteDone(p) == pc[p] = "done" /\ call[p].op = "write"

\* The objects whose serialize() yields bytes: a Blob with a payload and a
\* Commit whose document has a message.
HasPayload(obj) ==
    \/ obj.type = "blob" /\ obj.data.t = "bytes"
    \/ obj.type = "commit" /\ obj.kvlm.hasmsg /\ obj.kvlm.msg.t = "bytes"

PayloadOf(obj) ==
    IF obj.type = "blob" THEN obj.data.v
    ELSE FieldLines(obj.kvlm.fields) \o <<NL>> \o obj.kvlm.msg.v \o <<NL>>

HashOf(obj) == Sha1(ObjectFormat(obj.type, PayloadOf(obj)))

FileOf(obj) ==
    [dir |-> ShaDir(HashOf(obj)), name |-> ShaName(HashOf(obj)),
     bytes |-> Compress(ObjectFormat(obj.type, PayloadOf(obj)))]

\* C1: Blob round-trip.  When object_write of a Blob with payload p and a
\* repository given has finished, it has returned a hash, and object_read of
\* that hash on the store as it then is yields a Blob whose payload is p.
C1_BlobRoundTrip ==
    \A p \in Procs :
        (WriteDone(p) /\ call[p].persist /\ call[p].obj.type = "blob"
            /\ call[p].obj.data.t = "bytes")
        => /\ ret[p].kind = "sha"
           /\ LET r == object_read(odirs, onotdirs, ofiles, ret[p].sha)
              IN  /\ r.kind = "object"
                  /\ r.obj.type = "blob"
                  /\ r.obj.data.t = "bytes"
                  /\ r.obj.data.v = call[p].obj.data.v

\* C2: hash-only mode.  When object_write of a Blob or Commit with no
\* repository has finished, it has returned, as a normal result, the hash of
\* the frame <type> <len>\0<payload> (and the store is as it was: no action
\* of the model changes odirs, onotdirs or ofiles).
C2_HashWithoutPersist ==
    \A p \in Procs :
        (WriteDone(p) /\ ~call[p].persist /\ HasPayload(call[p].obj))
        => /\ ret[p].kind = "sha"
           /\ ret[p].sha = HashOf(call[p].obj)

\* C3: write idempotence.  Every finished persisting object_write (the first
\* for its content or a later one) has returned the content's hash, and the
\* store then holds the compressed frame in the file at that hash's path.
C3_WriteIdempotent ==
    \A p \in Procs :
        (WriteDone(p) /\ call[p].persist /\ HasPayload(call[p].obj))
        => /\ ret[p].kind = "sha"
           /\ ret[p].sha = HashOf(call[p].obj)
           /\ IsFile(ofiles, ShaDir(ret[p].sha), ShaName(ret[p].sha))

\* C4: NotFound.  A finished object_read of a hash with no file at
\* objects/<first 2>/<rest> has returned None, whatever the store holds,
\* also when the two-character directory does not exist.
C4_AbsentReadsNone ==
    \A p \in Procs :
        (ReadDone(p) /\ ~IsFile(ofiles, ShaDir(call[p].sha), ShaName(call[p].sha)))
        => ret[p].kind = "none"

\* The compressed bytes of each frame <tok> <n>\0<payload> of the model.
CompressedFrame ==
    [tok \in Tokens, n \in DeclaredLengths, payload \in Payloads |->
        Compress(FrameOf(tok, n, payload))]

\* The file at a hash's path holds the compressed frame <tok> <n>\0<payload>.
HasFile(sha) == ShaDir(sha) \in odirs /\ IsFile(ofiles, ShaDir(sha), ShaName(sha))

StoresFrame(sha, tok, n, payload) ==
    /\ HasFile(sha)
    /\ ReadBytes(ofiles, ShaDir(sha), ShaName(sha)) = CompressedFrame[tok, n, payload]

KnownTokens == {TypeToken(t) : t \in {"blob", "commit", "tree", "tag"}}

\* C5: corruption detection.  A finished object_read of a stored frame whose
\* declared decimal length differs from the number of bytes after the first
\* NUL has raised the Malformed-object exception and returned no object,
\* whatever the frame's type token.
C5_CorruptionDetected ==
    \A p \in Procs :
        (ReadDone(p) /\ HasFile(call[p].sha)) =>
            \A tok \in Tokens, payload \in Payloads, n \in DeclaredLengths :
                (n # Len(payload) /\ StoresFrame(call[p].sha, tok, n, payload))
                => /\ ret[p].kind = "raise"
                   /\ ret[p].exc = "Exception: Malformed object"
                   /\ ret[p].obj = NoObject

\* C5 witness: a read of a blob frame that declares fewer bytes than its
\* payload has ended in that exception.
C5_Witness ==
    \E p \in Procs :
        /\ ReadDone(p)
        /\ ret[p].exc = "Exception: Malformed object"
        /\ \E payload \in Payloads, n \in DeclaredLengths :
              /\ n < Len(payload)
              /\ StoresFrame(call[p].sha, TypeToken("blob"), n, payload)

\* C6: unknown type.  A finished object_read of a stored frame whose declared
\* length is right and whose type token is none of blob, commit, tree, tag
\* has raised the Unknown-type exception and returned no object.
C6_UnknownType ==
    \A p \in Procs :
        (ReadDone(p) /\ HasFile(call[p].sha)) =>
            \A tok \in Tokens \ KnownTokens, payload \in Payloads :
                StoresFrame(call[p].sha, tok, Len(payload), payload)
                => /\ ret[p].kind = "raise"
                   /\ ret[p].exc = "Exception: Unknown type"

\* C10: two writers of the same content.  Once two concurrent persisting
\* object_write calls of the same object have both finished, both have
\* returned the same hash as a normal result, and the store holds exactly
\* one file at that hash's path, with the whole compressed frame.
C10_RacingSameContent ==
    (/\ \A p \in Procs : WriteDone(p) /\ call[p].persist /\ HasPayload(call[p].obj)
     /\ call[1].obj = call[2].obj)
    => /\ \A p \in Procs : ret[p].kind = "sha" /\ ret[p].sha = HashOf(call[1].obj)
       /\ FileAt(ofiles, ShaDir(HashOf(call[1].obj)), ShaName(HashOf(call[1].obj)))
            = {FileOf(call[1].obj)}

\* C11: two writers of different content.  Once two concurrent persisting
\* object_write calls of objects with different hashes have both finished,
\* whatever the interleaving and also when the two hashes share their first
\* two hex characters and that directory did not exist, both have returned
\* their hash as a normal result and both files are in the store.
C11_RacingDifferentContent ==
    (/\ \A p \in Procs : WriteDone(p) /\ call[p].persist /\ HasPayload(call[p].obj)
     /\ HashOf(call[1].obj) # HashOf(call[2].obj))
    => \A p \in Procs :
          /\ ret[p].kind = "sha"
          /\ ret[p].sha = HashOf(call[p].obj)
          /\ FileOf(call[p].obj) \in ofiles

\* C12: dispatch.  A finished object_read of a stored well-formed frame whose
\* type token is one of blob, commit, tree, tag has returned an object of the
\* class of that token, built from the whole payload (every byte after the
\* first NUL, possibly none): for a blob, blobdata is the payload.
C12_ReadDispatch ==
    \A p \in Procs :
        (ReadDone(p) /\ HasFile(call[p].sha)) =>
            \A tok \in KnownTokens, payload \in Payloads :
                StoresFrame(call[p].sha, tok, Len(payload), payload)
                => /\ ret[p].kind = "object"
                   /\ ret[p].obj.type = TypeOfToken(tok)
                   /\ (tok = TypeToken("blob") => /\ ret[p].obj.data.t = "bytes"
                                                  /\ ret[p].obj.data.v = payload)

\* C16: write-once stability.  No step of object_read, object_write or
\* object_find removes an object file or changes its bytes: every file of the
\* store before the step is in the store after it, at the same path, with the
\* same bytes, under a directory that is still there.  This includes the step
\* of an object_write whose hash's path holds a file of other bytes.
C16_WriteOnce ==
    [][\A f \in ofiles : f \in ofiles' /\ f.dir \in odirs']_vars

\* A persisting object_write has finished on a store that holds, at the path
\* of the hash of the object written, a file whose bytes are not the
\* compressed frame of that object.
C16_Witness ==
    \E p \in Procs :
        /\ WriteDone(p) /\ call[p].persist /\ HasPayload(call[p].obj)
        /\ \E f \in FileAt(ofiles, ShaDir(HashOf(call[p].obj)), ShaName(HashOf(call[p].obj))) :
              f.bytes # FileOf(call[p].obj).bytes

\* The frames of the objects that finished persisting object_write calls were
\* given, and whether a stored file sits at the path of the hash of its own
\* decompressed frame, with a declared length equal to its payload's.
FramesWritten ==
    {ObjectFormat(call[p].obj.type, PayloadOf(call[p].obj)) :
        p \in {q \in Procs : WriteDone(q) /\ call[q].persist /\ HasPayload(call[q].obj)}}

ContentAddressed(f) ==
    /\ ValidStream(f.bytes)
    /\ LET frame == Decompress(f.bytes)
           y == Find(frame, NUL, Find(frame, SP, 0))
           size == IntOf(Slice(frame, Find(frame, SP, 0) + 1, y))
       IN  /\ f.dir = ShaDir(Sha1(frame))
           /\ f.name = ShaName(Sha1(frame))
           /\ size.ok
           /\ ~BadLength(size.n, frame, y)

\* C17: content-address invariant.  From an empty store, after any persisting
\* object_write calls, every stored file sits at the path of the hash of its
\* own decompressed frame, whose declared length is its payload's length, and
\* there are as many stored files as distinct frames written.
C17_ContentAddress ==
    /\ \A f \in ofiles : ContentAddressed(f)
    /\ Cardinality(ofiles) = Cardinality(FramesWritten)

(***************************************************************************)
(* Properties of the KVLM codec.                                           *)
(***************************************************************************)
\* The fields the wire grammar assigns to a list of header lines: the field
\* names in order of first appearance, each with its values in line order,
\* a list when the name occurs twice or more.
RECURSIVE FirstKeys(_, _)
FirstKeys(lines, seen) ==
    IF lines = <<>> THEN <<>>
    ELSE IF Head(lines).key \in seen THEN FirstKeys(Tail(lines), seen)
    ELSE <<Head(lines).key>> \o FirstKeys(Tail(lines), seen \cup {Head(lines).key})

RECURSIVE ValuesOf(_, _)
ValuesOf(lines, k) ==
    IF lines = <<>> THEN <<>>
    ELSE IF Head(lines).key = k THEN <<Head(lines).value>> \o ValuesOf(Tail(lines), k)
    ELSE ValuesOf(Tail(lines), k)

ExpectedFields(lines) ==
    [i \in 1..Len(FirstKeys(lines, {})) |->
        LET k == FirstKeys(lines, {})[i]
        IN  Field(k, Len(ValuesOf(lines, k)) >= 2, ValuesOf(lines, k))]

\* C7: KVLM round-trip.  When kvlm_parse of kvlm_serialize(d) has finished,
\* for a document d with a message, it has returned a document with d's
\* fields in d's order, each with d's scalar-or-list shape and values, and
\* with d's message plus one trailing newline.
C7_KvlmRoundTrip ==
    (kpc = "done" /\ kin.kind = "doc" /\ kin.doc.hasmsg)
    => /\ kout = "return"
       /\ kdict.fields = kin.doc.fields
       /\ kdict.hasmsg
       /\ kdict.msg.t = "bytes"
       /\ kdict.msg.v = kin.doc.msg.v \o <<NL>>

\* C8: field rule.  When kvlm_parse of a well-formed input (header lines, a
\* blank line, a message) has finished, it has returned a document whose
\* fields are those of the header lines: first-appearance order, a scalar
\* for a name that occurs once, the list of its values in order for a name
\* that occurs twice or more, every continuation unescaped.
C8_FieldRule ==
    \A lines \in LineLists, m \in Messages :
        (kpc = "done" /\ kin.kind = "raw" /\ kin.raw = Wire(lines, m))
        => /\ kout = "return"
           /\ kdict.fields = ExpectedFields(lines)

\* C9: kvlm_serialize output.  The bytes kvlm_serialize returns are, for each
\* field in insertion order and each of its values in list order, the line
\* <field> <escaped value>\n, then one blank line, the message and exactly
\* one trailing newline.
C9_SerializeOutput ==
    (kpc = "serialized")
    => kraw = FieldLines(kin.doc.fields) \o <<NL>> \o kin.doc.msg.v \o <<NL>>

\* C13: message rule.  When kvlm_parse of a well-formed input has finished,
\* it has returned a document whose message slot holds every byte after the
\* blank line's newline, verbatim to the end of the buffer (none, one or
\* many bytes).
C13_MessageRule ==
    (kpc = "done" /\ kin.kind = "raw") =>
        \A lines \in LineLists, m \in Messages :
            kin.raw = Wire(lines, m)
            => /\ kout = "return"
               /\ kdict.hasmsg
               /\ kdict.msg.t = "bytes"
               /\ kdict.msg.v = m

\* C14: format violation.  When kvlm_parse of an input whose header section
\* does not end in a blank line has finished, it has failed with the
\* format-violation outcome (the assertion of the message branch), not with
\* another error and not by returning a document.
C14_FormatViolation ==
    (kpc = "done" /\ kin.kind = "raw" /\ kin.raw \in UnterminatedRaws)
    => kout = "AssertionError"

\* C15: progress.  Every step of kvlm_parse moves its scan offset strictly
\* forward: an iteration of the value scan that continues has a larger end,
\* and a recursive call starts at a larger offset than the call before; so
\* the parse of a finite buffer ends after finitely many steps.
C15_ScanAdvances ==
    [][/\ (kpc = "scan" /\ kpc' = "scan") => kend' > kend
       /\ (kpc = "scan" /\ kpc' = "entry") => kstart' > kstart]_vars

====
